---- MODULE Spec2Model ----
(***************************************************************************)
(* tokinfo: a two-stage prompt-enhancement CLI.  One run of main() is      *)
(* modelled as a sequential process; pc is the position in main.  Text is  *)
(* a sequence of tokens (a token is a character or an opaque word), so     *)
(* that trimming, newline handling and extension tests are computed.       *)
(***************************************************************************)
EXTENDS Integers, Sequences, FiniteSets, TLC

VARIABLES
  pc,             \* position in main()
  exitStatus,     \* -1 while running, else the process exit status
  promptInput,    \* -p flag
  outputPath,     \* -g flag
  verbose,        \* -verbose flag
  apiKey,         \* value of GEMINI_API_KEY in the environment
  guidelinesFile, \* guidelines.json on disk: [exists, json]
  files,          \* text files on disk: path -> [exists, data]
  guidelines,     \* loaded config.Guidelines
  userPrompt,     \* result of prompt.ReadInput
  clientOpen,     \* a gemini.Client has been created
  closeCalls,     \* number of executions of Client.Close
  stage1Response, \* text returned by the model for stage 1
  stage1Calls,    \* arguments of each AnalyzePrompt invocation, in order
  analysisResult, \* gemini.AnalysisResult of stage 1
  qIdx,           \* number of questions already processed by the loop
  reads,          \* outcome of each reader.ReadString call, in order
  userAnswers,    \* map question text -> answer
  chosenTechnique,\* technique resolved by GetTechniqueByName
  stage2Calls,    \* arguments of each RefinePrompt invocation, in order
  stage2Response, \* text returned by the model for stage 2
  enhancedPrompt, \* text returned by stage 2
  stdout,         \* writes on standard output, in order: [tag, text]
  stderr,         \* writes of the log package, in order: [tag, fatal]
  ret             \* what the last direct call of a package function returned

vars == <<pc, exitStatus, promptInput, outputPath, verbose, apiKey,
          guidelinesFile, files, guidelines, userPrompt, clientOpen,
          closeCalls, stage1Response, stage1Calls, analysisResult, qIdx,
          reads, userAnswers, chosenTechnique, stage2Calls, stage2Response,
          enhancedPrompt, stdout, stderr, ret>>

----------------------------------------------------------------------------
(* Bounds *)

MaxQuestions == 2
MaxTechniques == 2

----------------------------------------------------------------------------
(* Generic helpers *)

RECURSIVE SeqsUpTo(_, _)
SeqsUpTo(S, n) ==
  IF n = 0 THEN {<<>>}
  ELSE LET shorter == SeqsUpTo(S, n - 1)
       IN  shorter \cup {Append(s, x) : s \in {t \in shorter : Len(t) = n - 1}, x \in S}

EmptyMap == [k \in {} |-> <<>>]

\* variant: a key already present keeps its value
MapSet_KeepFirst(m, k, v) ==
  [x \in DOMAIN m \cup {k} |-> IF x \in DOMAIN m THEN m[x] ELSE v]

\* m[k] = v of a Go map
MapSet(m, k, v) == [x \in DOMAIN m \cup {k} |-> IF x = k THEN v ELSE m[x]]

----------------------------------------------------------------------------
(* JSON texts.  A text is [t |-> "invalid"] when it is not JSON at all,    *)
(* else a value: [t |-> "null"], [t |-> "num"], [t |-> "str", v |-> s],    *)
(* [t |-> "arr", v |-> <<values>>], [t |-> "obj", v |-> [key |-> value]].  *)

JNull == [t |-> "null"]
JNum == [t |-> "num"]
JInvalid == [t |-> "invalid"]
JStr(s) == [t |-> "str", v |-> s]
JArr(a) == [t |-> "arr", v |-> a]
JObj(o) == [t |-> "obj", v |-> o]

\* encoding/json decoding of one value into a Go string field
DecodeString(j, old) ==
  IF j.t = "str" THEN [val |-> j.v, err |-> FALSE]
  ELSE IF j.t = "null" THEN [val |-> old, err |-> FALSE]
  ELSE [val |-> old, err |-> TRUE]

\* encoding/json decoding of one value into a Go []string field
DecodeStringSlice(j) ==
  IF j.t = "arr"
    THEN [val |-> [i \in DOMAIN j.v |-> DecodeString(j.v[i], "").val],
          err |-> \E i \in DOMAIN j.v : DecodeString(j.v[i], "").err]
  ELSE IF j.t = "null" THEN [val |-> <<>>, err |-> FALSE]
  ELSE [val |-> <<>>, err |-> TRUE]

----------------------------------------------------------------------------
(* package config *)

ZeroTechnique == [Name |-> "", Summarized |-> "", Complete |-> ""]
ZeroGuidelines == [Introduction |-> "", Techniques |-> <<>>]

Field(o, k) == IF k \in DOMAIN o THEN o[k] ELSE JNull

\* encoding/json decoding of one value into a config.Technique
DecodeTechnique(j) ==
  IF j.t = "obj"
    THEN LET n == DecodeString(Field(j.v, "name"), "")
             s == DecodeString(Field(j.v, "summarized"), "")
             c == DecodeString(Field(j.v, "complete"), "")
         IN  [val |-> [Name |-> n.val, Summarized |-> s.val, Complete |-> c.val],
              err |-> n.err \/ s.err \/ c.err]
  ELSE IF j.t = "null" THEN [val |-> ZeroTechnique, err |-> FALSE]
  ELSE [val |-> ZeroTechnique, err |-> TRUE]

\* variant: fills the slice from the last element to the first
DecodeTechniques_Reversed(j) ==
  IF j.t = "arr"
    THEN [val |-> [i \in DOMAIN j.v |-> DecodeTechnique(j.v[Len(j.v) + 1 - i]).val],
          err |-> \E i \in DOMAIN j.v : DecodeTechnique(j.v[i]).err]
  ELSE IF j.t = "null" THEN [val |-> <<>>, err |-> FALSE]
  ELSE [val |-> <<>>, err |-> TRUE]

\* encoding/json decoding of one value into a []config.Technique
DecodeTechniques(j) ==
  IF j.t = "arr"
    THEN [val |-> [i \in DOMAIN j.v |-> DecodeTechnique(j.v[i]).val],
          err |-> \E i \in DOMAIN j.v : DecodeTechnique(j.v[i]).err]
  ELSE IF j.t = "null" THEN [val |-> <<>>, err |-> FALSE]
  ELSE [val |-> <<>>, err |-> TRUE]

\* json.Unmarshal(data, &guidelines)
UnmarshalGuidelines(j) ==
  IF j.t = "invalid" THEN [val |-> ZeroGuidelines, err |-> TRUE]
  ELSE IF j.t = "null" THEN [val |-> ZeroGuidelines, err |-> FALSE]
  ELSE IF j.t # "obj" THEN [val |-> ZeroGuidelines, err |-> TRUE]
  ELSE LET i == DecodeString(Field(j.v, "introduction"), "")
           ts == DecodeTechniques(Field(j.v, "techniques"))
       IN  [val |-> [Introduction |-> i.val, Techniques |-> ts.val],
            err |-> i.err \/ ts.err]

\* variant: returns whatever was decoded, without the validation
LoadGuidelines_NoValidation(file) ==
  IF ~file.exists THEN [err |-> TRUE, val |-> ZeroGuidelines]
  ELSE LET u == UnmarshalGuidelines(file.json)
       IN  IF u.err THEN [err |-> TRUE, val |-> ZeroGuidelines]
           ELSE [err |-> FALSE, val |-> u.val]

\* config.LoadGuidelines: [err, val]; val is meaningful only when ~err
LoadGuidelines(file) ==
  IF ~file.exists THEN [err |-> TRUE, val |-> ZeroGuidelines]
  ELSE LET u == UnmarshalGuidelines(file.json)
       IN  IF u.err THEN [err |-> TRUE, val |-> ZeroGuidelines]
           ELSE IF u.val.Introduction = "" \/ Len(u.val.Techniques) = 0
             THEN [err |-> TRUE, val |-> ZeroGuidelines]
           ELSE [err |-> FALSE, val |-> u.val]

\* variant: keeps scanning and returns the last match
GetTechniqueByName_LastMatch(techniques, name) ==
  LET hits == {i \in DOMAIN techniques : techniques[i].Name = name}
  IN  IF hits = {} THEN [found |-> FALSE, val |-> ZeroTechnique]
      ELSE [found |-> TRUE,
            val |-> techniques[CHOOSE i \in hits : \A k \in hits : i >= k]]

\* variant: falls back to the first technique when no name matches
GetTechniqueByName_Fallback(techniques, name) ==
  LET hits == {i \in DOMAIN techniques : techniques[i].Name = name}
  IN  IF hits = {}
        THEN IF techniques = <<>> THEN [found |-> FALSE, val |-> ZeroTechnique]
             ELSE [found |-> TRUE, val |-> techniques[1]]
      ELSE [found |-> TRUE,
            val |-> techniques[CHOOSE i \in hits : \A k \in hits : i <= k]]

\* config.GetTechniqueByName: [found, val]; first match in slice order
GetTechniqueByName(techniques, name) ==
  LET hits == {i \in DOMAIN techniques : techniques[i].Name = name}
  IN  IF hits = {} THEN [found |-> FALSE, val |-> ZeroTechnique]
      ELSE [found |-> TRUE,
            val |-> techniques[CHOOSE i \in hits : \A k \in hits : i <= k]]

----------------------------------------------------------------------------
(* package prompt *)

IsPathSeparator(c) == c = "/"

\* strings.ToLower, on the tokens that occur in paths
LowerToken(c) ==
  IF c = "TXT" THEN "txt" ELSE IF c = "MD" THEN "md" ELSE c

ToLower(s) == [i \in DOMAIN s |-> LowerToken(s[i])]

\* filepath.Ext: the suffix beginning at the final dot of the final element
RECURSIVE ExtFrom(_, _)
ExtFrom(path, i) ==
  IF i < 1 \/ IsPathSeparator(path[i]) THEN <<>>
  ELSE IF path[i] = "." THEN SubSeq(path, i, Len(path))
  ELSE ExtFrom(path, i - 1)

Ext(path) == ExtFrom(path, Len(path))

AbsentFile == [exists |-> FALSE, data |-> <<>>]

FileAt(fs, path) == IF path \in DOMAIN fs THEN fs[path] ELSE AbsentFile

\* variant: an input is a file path when a file of that name exists
ReadInput_ExistingFile(inputPathOrString, fs) ==
  IF FileAt(fs, inputPathOrString).exists
    THEN [err |-> FALSE, val |-> FileAt(fs, inputPathOrString).data, isFile |-> TRUE]
  ELSE IF inputPathOrString = <<>>
    THEN [err |-> TRUE, val |-> <<>>, isFile |-> FALSE]
  ELSE [err |-> FALSE, val |-> inputPathOrString, isFile |-> FALSE]

\* prompt.ReadInput: [err, val, isFile]
ReadInput(inputPathOrString, fs) ==
  LET ext == ToLower(Ext(inputPathOrString))
      isFilePath == ext = <<".", "txt">> \/ ext = <<".", "md">>
  IN  IF isFilePath
        THEN IF ~FileAt(fs, inputPathOrString).exists
               THEN [err |-> TRUE, val |-> <<>>, isFile |-> TRUE]
               ELSE [err |-> FALSE, val |-> FileAt(fs, inputPathOrString).data,
                     isFile |-> TRUE]
      ELSE IF inputPathOrString = <<>>
        THEN [err |-> TRUE, val |-> <<>>, isFile |-> FALSE]
      ELSE [err |-> FALSE, val |-> inputPathOrString, isFile |-> FALSE]

\* outcomes of the write HandleOutput performs
WriteOutcomes == {"ok", "failed", "failed after truncating"}

\* variant: writes the file as it writes standard output, newline included
HandleOutput_Println(content, path, isVerbose, fs, out, io) ==
  IF io # "ok" THEN [err |-> TRUE, files |-> fs, stdout |-> out]
  ELSE IF path = <<>>
    THEN [err |-> FALSE, files |-> fs,
          stdout |-> Append(out, [tag |-> "output", text |-> Append(content, "\n")])]
  ELSE [err |-> FALSE, stdout |-> out,
        files |-> MapSet(fs, path, [exists |-> TRUE, data |-> Append(content, "\n")])]

\* prompt.HandleOutput: [err, files, stdout]
HandleOutput(content, path, isVerbose, fs, out, io) ==
  IF path = <<>>
    THEN IF io = "ok"
           THEN [err |-> FALSE, files |-> fs,
                 stdout |-> Append(out, [tag |-> "output", text |-> Append(content, "\n")])]
           ELSE [err |-> TRUE, files |-> fs, stdout |-> out]
  ELSE LET out1 == IF isVerbose
                     THEN Append(out, [tag |-> "writing file",
                                       text |-> <<"Writing enhanced prompt to file: ">>
                                                  \o path \o <<"\n">>])
                     ELSE out
       IN  IF io = "ok"
             THEN [err |-> FALSE, stdout |-> out1,
                   files |-> MapSet(fs, path, [exists |-> TRUE, data |-> content])]
           ELSE IF io = "failed after truncating"
             THEN [err |-> TRUE, stdout |-> out1,
                   files |-> MapSet(fs, path, [exists |-> TRUE, data |-> <<>>])]
           ELSE [err |-> TRUE, stdout |-> out1, files |-> fs]

----------------------------------------------------------------------------
(* package gemini *)

ZeroAnalysisResult == [ChosenTechniqueName |-> "", ClarifyingQuestions |-> <<>>]

\* json.Unmarshal([]byte(generatedText), &result) into gemini.AnalysisResult
UnmarshalAnalysis(j) ==
  IF j.t = "invalid" THEN [val |-> ZeroAnalysisResult, err |-> TRUE]
  ELSE IF j.t = "null" THEN [val |-> ZeroAnalysisResult, err |-> FALSE]
  ELSE IF j.t # "obj" THEN [val |-> ZeroAnalysisResult, err |-> TRUE]
  ELSE LET c == DecodeString(Field(j.v, "ChoseTechnique"), "")
           q == DecodeStringSlice(Field(j.v, "ClarifyingQuestions"))
       IN  [val |-> [ChosenTechniqueName |-> c.val, ClarifyingQuestions |-> q.val],
            err |-> c.err \/ q.err]

\* Client.AnalyzePrompt given the outcome of GenerateResponse: [err, val]
AnalyzePrompt(gen) ==
  IF gen.err THEN [err |-> TRUE, val |-> ZeroAnalysisResult]
  ELSE LET u == UnmarshalAnalysis(gen.text)
       IN  IF u.err THEN [err |-> TRUE, val |-> ZeroAnalysisResult]
           ELSE [err |-> FALSE, val |-> u.val]

\* variant: the refined text is returned trimmed
RefinePrompt_Trimmed(gen) ==
  IF gen.err THEN [err |-> TRUE, val |-> <<>>]
  ELSE [err |-> FALSE,
        val |-> SelectSeq(gen.text, LAMBDA c : c \notin {" ", "\t", "\n", "\r"})]

\* Client.RefinePrompt given the outcome of GenerateResponse: [err, val]
RefinePrompt(gen) ==
  IF gen.err THEN [err |-> TRUE, val |-> <<>>]
  ELSE [err |-> FALSE, val |-> gen.text]

\* the orders in which a range over a map with the key set S may visit it
IterationOrders(S) ==
  {o \in SeqsUpTo(S, Cardinality(S)) :
     Len(o) = Cardinality(S) /\ \A i, j \in DOMAIN o : o[i] = o[j] => i = j}

\* the keys the answers may have, in ascending string order
KeysAscending == <<"", "q1", "q2">>

KeyRank(k) == CHOOSE i \in DOMAIN KeysAscending : KeysAscending[i] = k

\* internal/fmtsort: the visited keys sorted ascending
SortKeys(order) ==
  CHOOSE o \in IterationOrders({order[i] : i \in DOMAIN order}) :
    \A i, j \in DOMAIN o : i < j => KeyRank(o[i]) < KeyRank(o[j])

RECURSIVE FormatEntries(_, _)
FormatEntries(m, ks) ==
  IF ks = <<>> THEN <<>>
  ELSE <<Head(ks), ":">> \o m[Head(ks)]
         \o (IF Len(ks) > 1 THEN <<" ">> ELSE <<>>)
         \o FormatEntries(m, Tail(ks))

\* variant: the entries are printed in the order the map is visited
FormatMap_Unsorted(m, order) ==
  <<"map[">> \o FormatEntries(m, order) \o <<"]">>

\* fmt %v of a map[string]string visited in the given order
FormatMap(m, order) ==
  <<"map[">> \o FormatEntries(m, SortKeys(order)) \o <<"]">>

\* the request text Client.RefinePrompt builds (client.go 165-187)
RefineRequest(intro, completeTechniqueDesc, prompt, answers, order) ==
  <<intro, "  (intro)\n", completeTechniqueDesc, " (completeTechniqueDesc)\n">>
    \o prompt \o <<"  (userprompt)\n">>
    \o FormatMap(answers, order)
    \o <<" (answers)\n\n", "You are a prompt enhancement tool ...">>

----------------------------------------------------------------------------
(* package strings / bufio *)

\* unicode.IsSpace on the characters of the model
IsSpace(c) == c \in {" ", "\t", "\n", "\r"}

RECURSIVE TrimLeft(_)
TrimLeft(s) ==
  IF s # <<>> /\ IsSpace(Head(s)) THEN TrimLeft(Tail(s)) ELSE s

RECURSIVE TrimRight(_)
TrimRight(s) ==
  IF s # <<>> /\ IsSpace(s[Len(s)]) THEN TrimRight(SubSeq(s, 1, Len(s) - 1)) ELSE s

\* strings.TrimSpace
TrimSpace(s) == TrimRight(TrimLeft(s))

----------------------------------------------------------------------------
(* The environment of one run *)

TechClear == JObj([name |-> JStr("clear_instructions"),
                   summarized |-> JStr("be clear"),
                   complete |-> JStr("clear: long")])
TechPersona == JObj([name |-> JStr("persona_pattern"),
                     summarized |-> JStr("act as"),
                     complete |-> JStr("persona: long")])
TechPersonaAlt == JObj([name |-> JStr("persona_pattern"),
                        summarized |-> JStr("act as, again"),
                        complete |-> JStr("persona: other")])
TechNoComplete == JObj([name |-> JStr("few_shot"), summarized |-> JStr("examples")])

GuidelineDoc(ts) == JObj([introduction |-> JStr("intro"), techniques |-> JArr(ts)])

\* contents guidelines.json may have when the program starts
GuidelineFiles ==
  << [exists |-> FALSE, json |-> JInvalid],
     [exists |-> TRUE, json |-> JInvalid],
     [exists |-> TRUE, json |-> JArr(<<>>)],
     [exists |-> TRUE, json |-> JObj([introduction |-> JStr(""), techniques |-> JArr(<<TechClear>>)])],
     [exists |-> TRUE, json |-> GuidelineDoc(<<>>)],
     [exists |-> TRUE, json |-> JObj([introduction |-> JStr("intro")])],
     [exists |-> TRUE, json |-> JObj([introduction |-> JNum, techniques |-> JArr(<<TechClear>>)])],
     [exists |-> TRUE, json |-> GuidelineDoc(<<TechClear>>)],
     [exists |-> TRUE, json |-> GuidelineDoc(<<TechNoComplete, TechClear, TechPersona, TechPersonaAlt>>)] >>

\* values of the -p flag
PromptArgs ==
  { <<>>, <<"Explain gravity">>, <<"notes", ".", "md">>, <<"NOTES", ".", "TXT">> }

\* values of the -g flag
OutputPaths == { <<>>, <<"out", ".", "txt">> }

\* states of the file the -p flag may name
PromptFiles ==
  { AbsentFile, [exists |-> TRUE, data |-> <<"from file", "\n">>] }

ApiKeys == {"", "secret"}

\* technique names the remote model may answer with
ChosenNames == {"clear_instructions", "persona_pattern", "nonexistent"}

\* question texts the remote model may answer with
QTexts == {"q1", "q2"}

QuestionLists == SeqsUpTo(QTexts, MaxQuestions)

\* lines the operator may type, without the final newline
LineBodies ==
  { <<>>, <<"a">>, <<" ", "a">>, <<"a", " ", "\r">>, <<" ", "a", " ", "b", "\t">> }

\* outcomes of reader.ReadString('\n'): a full line ending in the delimiter
\* and no error, or the data before the failure and an error
ReadOutcomes ==
  {[s |-> Append(l, "\n"), err |-> FALSE] : l \in LineBodies}
    \cup {[s |-> <<"a">>, err |-> TRUE]}

\* texts the remote model may answer with in stage 2
RefineTexts == { <<"Final text">>, <<" ">> }

\* stage-1 response in the shape of analyzeConfig.ResponseSchema
StringShape(n, qs) ==
  JObj([ChoseTechnique |-> JStr(n),
        ClarifyingQuestions |-> JArr([i \in DOMAIN qs |-> JStr(qs[i])])])

\* stage-1 response in the shape the stage-1 prompt text asks for
ObjectShape(n, qs) ==
  JObj([ChoseTechnique |-> JStr(n),
        ClarifyingQuestions |->
          JArr([i \in DOMAIN qs |->
                  JObj([question |-> JStr(qs[i]), exampleAnswer |-> JStr("example")])])])

\* stage-1 responses of no documented shape
OddResponses ==
  << JInvalid, JNull, JArr(<<>>), JObj([ChoseTechnique |-> JStr("clear_instructions")]),
     JObj([ChoseTechnique |-> JNum, ClarifyingQuestions |-> JArr(<<>>)]),
     JObj([ChoseTechnique |-> JStr("clear_instructions"), ClarifyingQuestions |-> JArr(<<JNull>>)]) >>

NoResponse == [t |-> "none"]

\* no package function has been called directly
NoCall == [fn |-> "none"]

----------------------------------------------------------------------------
(* Output channels *)

Println(out, tag, text) == Append(out, [tag |-> tag, text |-> Append(text, "\n")])

Printf(out, tag, text) == Append(out, [tag |-> tag, text |-> text])

\* fmt.Println guarded by *verbose
Progress(out, tag, text) == IF verbose THEN Println(out, tag, text) ELSE out

\* variant: the process exits with status 0
Fatal_ExitZero(tag) ==
  /\ stderr' = Append(stderr, [tag |-> tag, fatal |-> TRUE])
  /\ exitStatus' = 0
  /\ pc' = "exited"

\* log.Fatal / log.Fatalf: message on stderr, os.Exit(1), deferred calls not run
Fatal(tag) ==
  /\ stderr' = Append(stderr, [tag |-> tag, fatal |-> TRUE])
  /\ exitStatus' = 1
  /\ pc' = "exited"

----------------------------------------------------------------------------
(* main *)

Init ==
  /\ pc = "validate"
  /\ exitStatus = -1
  /\ promptInput \in PromptArgs
  /\ outputPath \in OutputPaths
  /\ verbose \in BOOLEAN
  /\ apiKey \in ApiKeys
  /\ \E i \in DOMAIN GuidelineFiles : guidelinesFile = GuidelineFiles[i]
  /\ \E f \in PromptFiles :
       files = IF ReadInput(promptInput, EmptyMap).isFile
                 THEN [p \in {promptInput} |-> f] ELSE EmptyMap
  /\ guidelines = ZeroGuidelines
  /\ userPrompt = <<>>
  /\ clientOpen = FALSE
  /\ closeCalls = 0
  /\ stage1Response = NoResponse
  /\ stage1Calls = <<>>
  /\ analysisResult = ZeroAnalysisResult
  /\ qIdx = 0
  /\ reads = <<>>
  /\ userAnswers = EmptyMap
  /\ chosenTechnique = ZeroTechnique
  /\ stage2Calls = <<>>
  /\ stage2Response = NoResponse
  /\ enhancedPrompt = <<>>
  /\ stdout = <<>>
  /\ stderr = <<>>
  /\ ret = NoCall

\* main.go 29-36
ValidateInput ==
  /\ pc = "validate"
  /\ IF promptInput = <<>>
       THEN Fatal("prompt flag required") /\ UNCHANGED stdout
       ELSE /\ stdout' = Progress(stdout, "start", <<"Starting Tokinfo: Prompt Enhancement Tool...">>)
            /\ pc' = "load"
            /\ UNCHANGED <<exitStatus, stderr>>
  /\ UNCHANGED <<ret, promptInput, outputPath, verbose, apiKey, guidelinesFile, files,
                 guidelines, userPrompt, clientOpen, closeCalls, stage1Response,
                 stage1Calls, analysisResult, qIdx, reads, userAnswers,
                 chosenTechnique, stage2Calls, stage2Response, enhancedPrompt>>

\* main.go 38-45
LoadStep ==
  /\ pc = "load"
  /\ LET r == LoadGuidelines(guidelinesFile)
     IN  IF r.err
           THEN Fatal("loading guidelines") /\ UNCHANGED <<guidelines, stdout>>
           ELSE /\ guidelines' = r.val
                /\ stdout' = Progress(stdout, "loaded", <<"Guidelines loaded.">>)
                /\ pc' = "read"
                /\ UNCHANGED <<exitStatus, stderr>>
  /\ UNCHANGED <<ret, promptInput, outputPath, verbose, apiKey, guidelinesFile, files,
                 userPrompt, clientOpen, closeCalls, stage1Response,
                 stage1Calls, analysisResult, qIdx, reads, userAnswers,
                 chosenTechnique, stage2Calls, stage2Response, enhancedPrompt>>

\* main.go 47-54 with the verbose message of prompt.ReadInput (handler.go 25-27)
ReadPromptStep ==
  /\ pc = "read"
  /\ LET r == ReadInput(promptInput, files)
         out1 == IF r.isFile
                   THEN Progress(stdout, "reading file", <<"Reading prompt from file: ">> \o promptInput)
                   ELSE stdout
     IN  IF r.err
           THEN Fatal("reading prompt input") /\ stdout' = out1 /\ UNCHANGED userPrompt
           ELSE /\ userPrompt' = r.val
                /\ stdout' = Progress(out1, "prompt read", <<"User prompt read successfully.">>)
                /\ pc' = "apikey"
                /\ UNCHANGED <<exitStatus, stderr>>
  /\ UNCHANGED <<ret, promptInput, outputPath, verbose, apiKey, guidelinesFile, files,
                 guidelines, clientOpen, closeCalls, stage1Response,
                 stage1Calls, analysisResult, qIdx, reads, userAnswers,
                 chosenTechnique, stage2Calls, stage2Response, enhancedPrompt>>

\* variant: the key is fetched but not tested
GetApiKey_NoCheck ==
  /\ pc = "apikey"
  /\ pc' = "client"
  /\ UNCHANGED <<exitStatus, stderr>>
  /\ UNCHANGED <<ret, promptInput, outputPath, verbose, apiKey, guidelinesFile, files,
                 guidelines, userPrompt, clientOpen, closeCalls, stage1Response,
                 stage1Calls, analysisResult, qIdx, reads, userAnswers,
                 chosenTechnique, stage2Calls, stage2Response, enhancedPrompt, stdout>>

\* main.go 56-60
GetApiKey ==
  /\ pc = "apikey"
  /\ IF apiKey = ""
       THEN Fatal("GEMINI_API_KEY not set")
       ELSE pc' = "client" /\ UNCHANGED <<exitStatus, stderr>>
  /\ UNCHANGED <<ret, promptInput, outputPath, verbose, apiKey, guidelinesFile, files,
                 guidelines, userPrompt, clientOpen, closeCalls, stage1Response,
                 stage1Calls, analysisResult, qIdx, reads, userAnswers,
                 chosenTechnique, stage2Calls, stage2Response, enhancedPrompt, stdout>>

\* gemini.NewClient: fails on an empty key or when genai.NewClient fails
NewClient(key, genaiOk) == key # "" /\ genaiOk

\* main.go 62-73
InitClient ==
  /\ pc = "client"
  /\ \E genaiOk \in BOOLEAN :
       IF ~NewClient(apiKey, genaiOk)
         THEN Fatal("initializing client") /\ UNCHANGED <<clientOpen, stdout>>
         ELSE /\ clientOpen' = TRUE
              /\ stdout' = Progress(stdout, "client", <<"Gemini client initialized.">>)
              /\ pc' = "stage1"
              /\ UNCHANGED <<exitStatus, stderr>>
  /\ UNCHANGED <<ret, promptInput, outputPath, verbose, apiKey, guidelinesFile, files,
                 guidelines, userPrompt, closeCalls, stage1Response,
                 stage1Calls, analysisResult, qIdx, reads, userAnswers,
                 chosenTechnique, stage2Calls, stage2Response, enhancedPrompt>>

\* main.go 76-80: one catalog line per technique
RECURSIVE Summarize(_)
Summarize(techniques) ==
  IF techniques = <<>> THEN <<>>
  ELSE <<"- ", Head(techniques).Name, ": ", Head(techniques).Summarized, "\n">>
         \o Summarize(Tail(techniques))

\* variant: a failed stage-1 call is tried again
Stage1With_Retry(gen) ==
  /\ stage1Calls' = Append(stage1Calls,
                           [intro |-> guidelines.Introduction,
                            summarizedTechniques |-> Summarize(guidelines.Techniques),
                            userPrompt |-> userPrompt])
  /\ stage1Response' = IF gen.err THEN NoResponse ELSE gen.text
  /\ LET r == AnalyzePrompt(gen)
     IN  IF r.err
           THEN UNCHANGED <<pc, exitStatus, stderr, analysisResult, stdout>>
           ELSE /\ analysisResult' = r.val
                /\ stdout' = Progress(stdout, "stage1 done",
                                      <<"Stage 1 analysis complete. Chosen technique:", " ",
                                        r.val.ChosenTechniqueName>>)
                /\ pc' = "questions"
                /\ UNCHANGED <<exitStatus, stderr>>

\* main.go 75-92; gen is the outcome of Client.GenerateResponse (client.go 201-214)
Stage1With(gen) ==
  /\ stage1Calls' = Append(stage1Calls,
                           [intro |-> guidelines.Introduction,
                            summarizedTechniques |-> Summarize(guidelines.Techniques),
                            userPrompt |-> userPrompt])
  /\ stage1Response' = IF gen.err THEN NoResponse ELSE gen.text
  /\ LET r == AnalyzePrompt(gen)
     IN  IF r.err
           THEN Fatal("stage 1") /\ UNCHANGED <<analysisResult, stdout>>
           ELSE /\ analysisResult' = r.val
                /\ stdout' = Progress(stdout, "stage1 done",
                                      <<"Stage 1 analysis complete. Chosen technique:", " ",
                                        r.val.ChosenTechniqueName>>)
                /\ pc' = "questions"
                /\ UNCHANGED <<exitStatus, stderr>>

Stage1 ==
  /\ pc = "stage1"
  /\ \/ Stage1With([err |-> TRUE, text |-> NoResponse])
     \/ \E n \in ChosenNames, qs \in QuestionLists :
          Stage1With([err |-> FALSE, text |-> StringShape(n, qs)])
     \/ \E n \in ChosenNames, qs \in QuestionLists :
          Stage1With([err |-> FALSE, text |-> ObjectShape(n, qs)])
     \/ \E i \in DOMAIN OddResponses :
          Stage1With([err |-> FALSE, text |-> OddResponses[i]])
  /\ UNCHANGED <<ret, promptInput, outputPath, verbose, apiKey, guidelinesFile, files,
                 guidelines, userPrompt, clientOpen, closeCalls, qIdx, reads,
                 userAnswers, chosenTechnique, stage2Calls, stage2Response, enhancedPrompt>>

\* main.go 95-101 and 118-122
BeginQuestions ==
  /\ pc = "questions"
  /\ userAnswers' = EmptyMap
  /\ IF Len(analysisResult.ClarifyingQuestions) > 0
       THEN /\ stdout' = Progress(stdout, "please answer",
                                  <<"\n", "Please answer the following questions to help refine the prompt:">>)
            /\ pc' = "ask"
       ELSE /\ stdout' = Progress(stdout, "no questions",
                                  <<"No clarifying questions needed based on the analysis.">>)
            /\ pc' = "resolve"
  /\ UNCHANGED <<exitStatus, ret, promptInput, outputPath, verbose, apiKey, guidelinesFile,
                 files, guidelines, userPrompt, clientOpen, closeCalls, stage1Response,
                 stage1Calls, analysisResult, qIdx, reads, chosenTechnique,
                 stage2Calls, stage2Response, enhancedPrompt, stderr>>

\* variant: the answer is stored as read, delimiter included
StoreAnswer_NoTrim(answers, questionText, answer) ==
  MapSet(answers, questionText, answer)

\* main.go 113: userAnswers[questionText] = strings.TrimSpace(answer)
StoreAnswer(answers, questionText, answer) ==
  MapSet(answers, questionText, TrimSpace(answer))

\* variant: a failed read aborts the run
AskQuestion_FatalOnError ==
  /\ pc = "ask"
  /\ qIdx < Len(analysisResult.ClarifyingQuestions)
  /\ LET questionText == analysisResult.ClarifyingQuestions[qIdx + 1]
     IN  /\ stdout' = Printf(stdout, "question", <<"- ", questionText, ": ">>)
         /\ \E r \in ReadOutcomes :
              /\ reads' = Append(reads, r)
              /\ IF r.err
                   THEN /\ Fatal("could not read answer")
                        /\ UNCHANGED userAnswers
                   ELSE /\ userAnswers' = StoreAnswer(userAnswers, questionText, r.s)
                        /\ UNCHANGED <<stderr, pc, exitStatus>>
  /\ qIdx' = qIdx + 1
  /\ UNCHANGED <<ret, promptInput, outputPath, verbose, apiKey, guidelinesFile,
                 files, guidelines, userPrompt, clientOpen, closeCalls, stage1Response,
                 stage1Calls, analysisResult, chosenTechnique, stage2Calls, stage2Response,
                 enhancedPrompt>>

\* main.go 103-114: one iteration of the loop over the questions
AskQuestion ==
  /\ pc = "ask"
  /\ qIdx < Len(analysisResult.ClarifyingQuestions)
  /\ LET questionText == analysisResult.ClarifyingQuestions[qIdx + 1]
     IN  /\ stdout' = Printf(stdout, "question", <<"- ", questionText, ": ">>)
         /\ \E r \in ReadOutcomes :
              /\ reads' = Append(reads, r)
              /\ IF r.err
                   THEN /\ stderr' = Append(stderr, [tag |-> "could not read answer", fatal |-> FALSE])
                        /\ UNCHANGED userAnswers
                   ELSE /\ userAnswers' = StoreAnswer(userAnswers, questionText, r.s)
                        /\ UNCHANGED stderr
  /\ qIdx' = qIdx + 1
  /\ UNCHANGED <<pc, exitStatus, ret, promptInput, outputPath, verbose, apiKey, guidelinesFile,
                 files, guidelines, userPrompt, clientOpen, closeCalls, stage1Response,
                 stage1Calls, analysisResult, chosenTechnique, stage2Calls, stage2Response,
                 enhancedPrompt>>

\* main.go 115-117: the loop is over
EndQuestions ==
  /\ pc = "ask"
  /\ qIdx = Len(analysisResult.ClarifyingQuestions)
  /\ stdout' = Progress(stdout, "thanks", <<"Thank you for your answers.">>)
  /\ pc' = "resolve"
  /\ UNCHANGED <<exitStatus, ret, promptInput, outputPath, verbose, apiKey, guidelinesFile,
                 files, guidelines, userPrompt, clientOpen, closeCalls, stage1Response,
                 stage1Calls, analysisResult, qIdx, reads, userAnswers, chosenTechnique,
                 stage2Calls, stage2Response, enhancedPrompt, stderr>>

\* main.go 124-128
ResolveTechnique ==
  /\ pc = "resolve"
  /\ LET r == GetTechniqueByName(guidelines.Techniques, analysisResult.ChosenTechniqueName)
     IN  IF ~r.found
           THEN Fatal("technique not found") /\ UNCHANGED chosenTechnique
           ELSE /\ chosenTechnique' = r.val
                /\ pc' = "stage2"
                /\ UNCHANGED <<exitStatus, stderr>>
  /\ UNCHANGED <<ret, promptInput, outputPath, verbose, apiKey, guidelinesFile, files,
                 guidelines, userPrompt, clientOpen, closeCalls, stage1Response,
                 stage1Calls, analysisResult, qIdx, reads, userAnswers,
                 stage2Calls, stage2Response, enhancedPrompt, stdout>>

\* main.go 129-136; gen is the outcome of Client.GenerateResponse (client.go 201-214)
Stage2With(gen) ==
  /\ \E order \in IterationOrders(DOMAIN userAnswers) :
       stage2Calls' = Append(stage2Calls,
                             [intro |-> guidelines.Introduction,
                              completeTechniqueDesc |-> chosenTechnique.Complete,
                              userPrompt |-> userPrompt,
                              answers |-> userAnswers,
                              prompt |-> RefineRequest(guidelines.Introduction,
                                                       chosenTechnique.Complete,
                                                       userPrompt, userAnswers, order)])
  /\ stage2Response' = IF gen.err THEN NoResponse ELSE [t |-> "text", v |-> gen.text]
  /\ LET r == RefinePrompt(gen)
     IN  IF r.err
           THEN Fatal("stage 2") /\ UNCHANGED <<enhancedPrompt, stdout>>
           ELSE /\ enhancedPrompt' = r.val
                /\ stdout' = Progress(stdout, "stage2 done", <<"Stage 2 refinement complete.">>)
                /\ pc' = "emit"
                /\ UNCHANGED <<exitStatus, stderr>>

Stage2 ==
  /\ pc = "stage2"
  /\ \/ Stage2With([err |-> TRUE, text |-> <<>>])
     \/ \E t \in RefineTexts : Stage2With([err |-> FALSE, text |-> t])
  /\ UNCHANGED <<ret, promptInput, outputPath, verbose, apiKey, guidelinesFile, files,
                 guidelines, userPrompt, clientOpen, closeCalls, stage1Response,
                 stage1Calls, analysisResult, qIdx, reads, userAnswers,
                 chosenTechnique>>

\* variant: the result is printed only under -verbose
EmitResult_VerboseOnly ==
  /\ pc = "emit"
  /\ LET out1 == Progress(stdout, "executing", <<"\n", "Executing enhanced prompt with Gemini...">>)
         out2 == IF verbose THEN Println(out1, "result", enhancedPrompt) ELSE out1
     IN  stdout' = IF verbose /\ outputPath # <<>>
                     THEN Printf(out2, "saved",
                                 <<"Enhanced prompt successfully saved to ">> \o outputPath \o <<"\n">>)
                     ELSE out2
  /\ pc' = "return"
  /\ UNCHANGED <<exitStatus, ret, promptInput, outputPath, verbose, apiKey, guidelinesFile,
                 files, guidelines, userPrompt, clientOpen, closeCalls, stage1Response,
                 stage1Calls, analysisResult, qIdx, reads, userAnswers, chosenTechnique,
                 stage2Calls, stage2Response, enhancedPrompt, stderr>>

\* main.go 138-149: the result is printed; no file is written
EmitResult ==
  /\ pc = "emit"
  /\ LET out1 == Progress(stdout, "executing", <<"\n", "Executing enhanced prompt with Gemini...">>)
         out2 == Println(out1, "result", enhancedPrompt)
     IN  stdout' = IF verbose /\ outputPath # <<>>
                     THEN Printf(out2, "saved",
                                 <<"Enhanced prompt successfully saved to ">> \o outputPath \o <<"\n">>)
                     ELSE out2
  /\ pc' = "return"
  /\ UNCHANGED <<exitStatus, ret, promptInput, outputPath, verbose, apiKey, guidelinesFile,
                 files, guidelines, userPrompt, clientOpen, closeCalls, stage1Response,
                 stage1Calls, analysisResult, qIdx, reads, userAnswers, chosenTechnique,
                 stage2Calls, stage2Response, enhancedPrompt, stderr>>

\* main.go 153 with the deferred geminiClient.Close() (main.go 70, client.go 83-90)
Return ==
  /\ pc = "return"
  /\ closeCalls' = closeCalls + 1
  /\ stdout' = Println(stdout, "close", <<"Gemini client resources released (placeholder).">>)
  /\ exitStatus' = 0
  /\ pc' = "exited"
  /\ UNCHANGED <<ret, promptInput, outputPath, verbose, apiKey, guidelinesFile, files,
                 guidelines, userPrompt, clientOpen, stage1Response, stage1Calls,
                 analysisResult, qIdx, reads, userAnswers, chosenTechnique,
                 stage2Calls, stage2Response, enhancedPrompt, stderr>>

Next ==
  \/ ValidateInput
  \/ LoadStep
  \/ ReadPromptStep
  \/ GetApiKey
  \/ InitClient
  \/ Stage1
  \/ BeginQuestions
  \/ AskQuestion
  \/ EndQuestions
  \/ ResolveTechnique
  \/ Stage2
  \/ EmitResult
  \/ Return

Spec == Init /\ [][Next]_vars

----------------------------------------------------------------------------
(* Direct calls of the package functions, as a test of the packages makes  *)
(* them: one function is applied to inputs drawn from the sets below.      *)

JAbsent == [t |-> "absent"]

\* technique entries a guidelines document may hold
TechEntries == {TechClear, TechPersona, TechPersonaAlt, TechNoComplete, JNull, JNum}

\* a JSON object with the given members, JAbsent standing for no member
DocWith(intro, techs) ==
  LET all == [introduction |-> intro, techniques |-> techs]
      keys == {k \in {"introduction", "techniques"} : all[k].t # "absent"}
  IN  JObj([k \in keys |-> all[k]])

LibIntroductions == {JAbsent, JStr(""), JStr("intro"), JNum}

LibTechniqueMembers ==
  {JAbsent, JNull, JNum} \cup {JArr(ts) : ts \in SeqsUpTo(TechEntries, MaxTechniques)}

\* contents of a guidelines file
LibGuidelineFiles ==
  {[exists |-> e, json |-> JInvalid] : e \in BOOLEAN}
    \cup {[exists |-> TRUE, json |-> j] : j \in {JNull, JArr(<<>>)}}
    \cup {[exists |-> TRUE, json |-> DocWith(i, t)] :
            i \in LibIntroductions, t \in LibTechniqueMembers}

\* names looked up
LibNames == {"clear_instructions", "persona_pattern", "Persona_Pattern", "nonexistent", ""}

\* raw inputs of ReadInput
LibInputs ==
  { <<>>, <<"hello world">>, <<"notes", ".", "md">>, <<"NOTES", ".", "TXT">>,
    <<"main", ".", "go">>, <<"dir", ".", "md", "/", "raw">>,
    <<"notes", ".", "md", ".", "bak">>, <<".", "txt">>, <<"md">>,
    <<"Summarize", " ", "notes", ".", "md">> }

\* file systems
LibFileSystems ==
  { EmptyMap,
    [p \in {<<"notes", ".", "md">>} |-> [exists |-> TRUE, data |-> <<"from file", "\n">>]],
    [p \in {<<"NOTES", ".", "TXT">>} |-> [exists |-> TRUE, data |-> <<>>]],
    [p \in {<<".", "txt">>, <<"Summarize", " ", "notes", ".", "md">>} |->
       [exists |-> TRUE, data |-> <<"x">>]],
    [p \in {<<"out", ".", "txt">>} |-> [exists |-> TRUE, data |-> <<"old", "\n">>]] }

\* texts handed to HandleOutput
LibContents == { <<>>, <<"Final text">>, <<"Final text", "\n">> }

InitLib ==
  /\ pc = "lib"
  /\ exitStatus = -1
  /\ apiKey = ""
  /\ \/ /\ guidelinesFile \in LibGuidelineFiles
        /\ promptInput = <<>> /\ files = EmptyMap /\ outputPath = <<>>
        /\ verbose = FALSE /\ enhancedPrompt = <<>>
     \/ /\ guidelinesFile = [exists |-> FALSE, json |-> JInvalid]
        /\ promptInput \in LibInputs /\ files \in LibFileSystems
        /\ outputPath \in OutputPaths
        /\ verbose \in BOOLEAN /\ enhancedPrompt \in LibContents
  /\ guidelines = ZeroGuidelines
  /\ userPrompt = <<>>
  /\ clientOpen = FALSE
  /\ closeCalls = 0
  /\ stage1Response = NoResponse
  /\ stage1Calls = <<>>
  /\ analysisResult = ZeroAnalysisResult
  /\ qIdx = 0
  /\ reads = <<>>
  /\ userAnswers = EmptyMap
  /\ chosenTechnique = ZeroTechnique
  /\ stage2Calls = <<>>
  /\ stage2Response = NoResponse
  /\ stdout = <<>>
  /\ stderr = <<>>
  /\ ret = NoCall

\* guidelines, err := config.LoadGuidelines(path)
CallLoadGuidelines ==
  /\ pc = "lib"
  /\ LET r == LoadGuidelines(guidelinesFile)
     IN  /\ ret' = [fn |-> "LoadGuidelines", err |-> r.err]
         /\ guidelines' = r.val
  /\ pc' = "loaded"
  /\ UNCHANGED <<exitStatus, promptInput, outputPath, verbose, apiKey, guidelinesFile,
                 files, userPrompt, clientOpen, closeCalls, stage1Response, stage1Calls,
                 analysisResult, qIdx, reads, userAnswers, chosenTechnique, stage2Calls,
                 stage2Response, enhancedPrompt, stdout, stderr>>

\* technique, found := config.GetTechniqueByName(guidelines.Techniques, name)
CallGetTechniqueByName ==
  /\ pc \in {"lib", "loaded"}
  /\ \E name \in LibNames :
       LET r == GetTechniqueByName(guidelines.Techniques, name)
       IN  /\ ret' = [fn |-> "GetTechniqueByName", name |-> name, found |-> r.found,
                      techniques |-> guidelines.Techniques]
           /\ chosenTechnique' = r.val
  /\ pc' = "called"
  /\ UNCHANGED <<exitStatus, promptInput, outputPath, verbose, apiKey, guidelinesFile,
                 files, guidelines, userPrompt, clientOpen, closeCalls, stage1Response,
                 stage1Calls, analysisResult, qIdx, reads, userAnswers, stage2Calls,
                 stage2Response, enhancedPrompt, stdout, stderr>>

\* userPrompt, err := prompt.ReadInput(raw, verbose)
CallReadInput ==
  /\ pc = "lib"
  /\ LET r == ReadInput(promptInput, files)
     IN  /\ ret' = [fn |-> "ReadInput", err |-> r.err]
         /\ userPrompt' = r.val
         /\ stdout' = IF r.isFile
                        THEN Progress(stdout, "reading file",
                                      <<"Reading prompt from file: ">> \o promptInput)
                        ELSE stdout
  /\ pc' = "called"
  /\ UNCHANGED <<exitStatus, promptInput, outputPath, verbose, apiKey, guidelinesFile,
                 files, guidelines, clientOpen, closeCalls, stage1Response, stage1Calls,
                 analysisResult, qIdx, reads, userAnswers, chosenTechnique, stage2Calls,
                 stage2Response, enhancedPrompt, stderr>>

\* err := prompt.HandleOutput(enhancedPrompt, outputPath, verbose)
CallHandleOutput ==
  /\ pc = "lib"
  /\ \E io \in WriteOutcomes :
       LET r == HandleOutput(enhancedPrompt, outputPath, verbose, files, stdout, io)
       IN  /\ ret' = [fn |-> "HandleOutput", err |-> r.err, io |-> io, filesBefore |-> files,
                      stdoutBefore |-> stdout]
           /\ files' = r.files
           /\ stdout' = r.stdout
  /\ pc' = "called"
  /\ UNCHANGED <<exitStatus, promptInput, outputPath, verbose, apiKey, guidelinesFile,
                 guidelines, userPrompt, clientOpen, closeCalls, stage1Response,
                 stage1Calls, analysisResult, qIdx, reads, userAnswers, chosenTechnique,
                 stage2Calls, stage2Response, enhancedPrompt, stderr>>

NextLib ==
  \/ CallLoadGuidelines
  \/ CallGetTechniqueByName
  \/ CallReadInput
  \/ CallHandleOutput

SpecLib == InitLib /\ [][NextLib]_vars

----------------------------------------------------------------------------
(* Observations on a run *)

Exited == pc = "exited"
Succeeded == Exited /\ exitStatus = 0
Failed == Exited /\ exitStatus = 1

\* diagnostics of log.Fatal on stderr
FatalTags == {stderr[i].tag : i \in {k \in DOMAIN stderr : stderr[k].fatal}}

\* number of warnings of log.Printf on stderr
Warnings == Cardinality({k \in DOMAIN stderr : ~stderr[k].fatal})

\* positions on stdout where the final result was written
ResultWrites == {k \in DOMAIN stdout : stdout[k].tag = "result"}

\* positions on stdout where a question was prompted
QuestionWrites == {k \in DOMAIN stdout : stdout[k].tag = "question"}

Questions == analysisResult.ClarifyingQuestions

Stage1Invoked == stage1Calls # <<>>
Stage1Succeeded == Stage1Invoked /\ "stage 1" \notin FatalTags
Stage2Invoked == stage2Calls # <<>>
Stage2Succeeded == Stage2Invoked /\ "stage 2" \notin FatalTags

TechniqueNames == {guidelines.Techniques[i].Name : i \in DOMAIN guidelines.Techniques}

\* stage 1 has answered with a technique name the loaded guidelines lack
Unresolved == Stage1Succeeded /\ analysisResult.ChosenTechniqueName \notin TechniqueNames

----------------------------------------------------------------------------
(* Claims *)

\* C1: whenever stage 1 has returned a technique name that matches no technique
\* of the loaded guidelines, stage 2 is never invoked, no enhanced prompt is
\* written anywhere, and the run can only end fatally, with the
\* technique-not-found diagnostic.
C1_UnresolvedIsFatal ==
  Unresolved =>
    /\ ~Stage2Invoked
    /\ ResultWrites = {}
    /\ pc \in {"questions", "ask", "resolve", "exited"}
    /\ Exited => exitStatus = 1 /\ FatalTags = {"technique not found"}

\* C1 witness: a run with an unknown technique name has asked its questions and exited
C1_Witness == Exited /\ Unresolved /\ reads # <<>>

\* C2 (the claim as stated): on every successful run the enhanced prompt is in
\* the file named by -g when -g is given, and on stdout when it is not.
C2_Destination ==
  Succeeded =>
    IF outputPath # <<>>
      THEN /\ FileAt(files, outputPath).exists
           /\ FileAt(files, outputPath).data = enhancedPrompt
      ELSE \E k \in ResultWrites : stdout[k].text = Append(enhancedPrompt, "\n")

\* C3: a run that ended with status 0 has written the enhanced prompt (and a
\* newline) on stdout exactly once, with -verbose or without; a run that ended
\* fatally has written it zero times.
C3_EmittedOnce ==
  /\ Succeeded =>
       /\ Cardinality(ResultWrites) = 1
       /\ \A k \in ResultWrites : stdout[k].text = Append(enhancedPrompt, "\n")
  /\ Failed => ResultWrites = {}

\* C3 witness: a successful run without -verbose
C3_Witness == Succeeded /\ ~verbose /\ Cardinality(ResultWrites) = 1

\* the line typed for a read: what ReadString returned, without the delimiter
Line(r) == SubSeq(r.s, 1, Len(r.s) - 1)

\* t is l without its leading and trailing whitespace
IsTrimOf(t, l) ==
  /\ \E a, b \in 0..Len(l) :
       /\ a + b <= Len(l)
       /\ t = SubSeq(l, a + 1, Len(l) - b)
       /\ \A i \in 1..a : IsSpace(l[i])
       /\ \A i \in (Len(l) - b + 1)..Len(l) : IsSpace(l[i])
  /\ t # <<>> => ~IsSpace(t[1]) /\ ~IsSpace(t[Len(t)])

AllReadsSucceeded == \A i \in DOMAIN reads : ~reads[i].err

\* the answer map handed to stage 2
PassedAnswers == stage2Calls[1].answers

\* index of the last question with the same text as question i
LastWithText(i) ==
  CHOOSE j \in DOMAIN Questions :
    /\ Questions[j] = Questions[i]
    /\ \A k \in DOMAIN Questions : Questions[k] = Questions[i] => k <= j

\* C4 (the claim as stated): when every read succeeded, the answer map passed
\* to stage 2 has exactly the question texts as keys and maps the text of each
\* question to the trimmed line supplied for that question.
C4_EveryQuestionOwnAnswer ==
  (Stage2Invoked /\ Questions # <<>> /\ AllReadsSucceeded) =>
    /\ DOMAIN PassedAnswers = {Questions[i] : i \in DOMAIN Questions}
    /\ \A i \in DOMAIN Questions : IsTrimOf(PassedAnswers[Questions[i]], Line(reads[i]))

\* C4 (amended): when every read succeeded, the answer map passed to stage 2
\* has exactly the question texts as keys and maps each question text to the
\* trimmed line supplied for the last question in the sequence with that text.
C4_LastAnswerPerText ==
  (Stage2Invoked /\ Questions # <<>> /\ AllReadsSucceeded) =>
    /\ Len(reads) = Len(Questions)
    /\ DOMAIN PassedAnswers = {Questions[i] : i \in DOMAIN Questions}
    /\ \A i \in DOMAIN Questions :
         IsTrimOf(PassedAnswers[Questions[i]], Line(reads[LastWithText(i)]))

\* C4 witness: stage 2 was invoked after two successful reads for two questions
\* of the same text, the first line with leading whitespace, and the map holds
\* the second line
C4_Witness ==
  /\ Stage2Invoked /\ AllReadsSucceeded /\ Len(reads) = 2
  /\ Questions[1] = Questions[2]
  /\ Line(reads[1]) = <<" ", "a">>
  /\ Line(reads[2]) = <<" ", "a", " ", "b", "\t">>
  /\ PassedAnswers[Questions[1]] = <<"a", " ", "b">>

\* C5: when stage 1 returned no clarifying question, nothing is read from
\* stdin and no question is prompted, the answer map passed to stage 2 is
\* empty, and the result written on stdout by a successful run is the text
\* stage 2 returned (followed by the newline of Println).
C5_NoQuestions ==
  (Stage1Succeeded /\ Questions = <<>>) =>
    /\ reads = <<>>
    /\ QuestionWrites = {}
    /\ Stage2Invoked => DOMAIN PassedAnswers = {}
    /\ Succeeded =>
         /\ ResultWrites # {}
         /\ \A k \in ResultWrites : stdout[k].text = Append(stage2Response.v, "\n")

\* C5 witness: a successful run without questions whose stage-2 text is blank
C5_Witness ==
  /\ Succeeded /\ Stage1Succeeded /\ Questions = <<>>
  /\ stage2Response.v = <<" ">>

\* question texts for which some read has succeeded so far
AnsweredTexts == {Questions[i] : i \in {k \in DOMAIN reads : ~reads[k].err}}

\* C6: a failed read never ends the run: each failed read logs one warning and
\* stores nothing, so the keys of the answer map are the texts of the
\* successfully read questions; the questions are prompted in order, all of
\* them before the run can end; a run only ends fatally for the technique
\* lookup or stage 2; and when the chosen technique resolves stage 2 is invoked
\* with that partial map.
C6_ReadFailureSkipsQuestion ==
  (\E i \in DOMAIN reads : reads[i].err) =>
    /\ Warnings = Cardinality({k \in DOMAIN reads : reads[k].err})
    /\ DOMAIN userAnswers = AnsweredTexts
    /\ Len(reads) <= Len(Questions)
    /\ Cardinality(QuestionWrites) = Len(reads)
    /\ \A k \in QuestionWrites :
         stdout[k].text = <<"- ", Questions[Cardinality({j \in QuestionWrites : j <= k})], ": ">>
    /\ Exited => Len(reads) = Len(Questions)
    /\ Failed => FatalTags \in {{"technique not found"}, {"stage 2"}}
    /\ (Exited /\ ~Unresolved) => Stage2Invoked
    /\ Stage2Invoked => PassedAnswers = userAnswers /\ Len(reads) = Len(Questions)

\* C6 witness: stage 2 was invoked with one answer after the first read failed
\* and the second succeeded
C6_Witness ==
  /\ Stage2Invoked /\ Len(reads) = 2
  /\ reads[1].err /\ ~reads[2].err
  /\ Questions[1] # Questions[2]
  /\ DOMAIN PassedAnswers = {Questions[2]}

\* the fatal conditions, as properties of the run's inputs and responses
MissingPrompt == promptInput = <<>>
BadConfig == LoadGuidelines(guidelinesFile).err
BadInput == ReadInput(promptInput, files).err
NoCredential == apiKey = ""
Stage1Failed ==
  Stage1Invoked /\ (stage1Response.t = "none" \/ UnmarshalAnalysis(stage1Response).err)
Stage2Failed == Stage2Invoked /\ stage2Response.t = "none"

NoRemoteWork ==
  /\ ~clientOpen /\ ~Stage1Invoked /\ ~Stage2Invoked
  /\ reads = <<>> /\ QuestionWrites = {} /\ ResultWrites = {}

\* C7: each fatal condition ends the run with status 1 and its own diagnostic,
\* with nothing of the later steps done (no later load, read, client, remote
\* call, question or result); a run ends with status 0 only with the enhanced
\* prompt written and no fatal condition met.
C7_FatalStopsTheRun ==
  LET missingPrompt == MissingPrompt
      badConfig == BadConfig
      badInput == BadInput
      tags == FatalTags
      results == ResultWrites
      noRemoteWork == NoRemoteWork
      unresolved == Unresolved
  IN
  /\ Exited <=> exitStatus # -1
  /\ exitStatus \in {-1, 0, 1}
  /\ Succeeded =>
       /\ results # {} /\ tags = {}
       /\ ~missingPrompt /\ ~badConfig /\ ~badInput /\ ~NoCredential
       /\ ~Stage1Failed /\ ~unresolved /\ ~Stage2Failed
  /\ Failed => Cardinality(tags) = 1 /\ stderr[Len(stderr)].fatal
  /\ ~Exited => tags = {}
  /\ missingPrompt =>
       /\ guidelines = ZeroGuidelines /\ userPrompt = <<>> /\ stdout = <<>> /\ noRemoteWork
       /\ Exited => Failed /\ tags = {"prompt flag required"}
  /\ (~missingPrompt /\ badConfig) =>
       /\ guidelines = ZeroGuidelines /\ userPrompt = <<>> /\ noRemoteWork
       /\ Exited => Failed /\ tags = {"loading guidelines"}
  /\ (~missingPrompt /\ ~badConfig /\ badInput) =>
       /\ userPrompt = <<>> /\ noRemoteWork
       /\ Exited => Failed /\ tags = {"reading prompt input"}
  /\ (~missingPrompt /\ ~badConfig /\ ~badInput /\ NoCredential) =>
       /\ noRemoteWork
       /\ Exited => Failed /\ tags = {"GEMINI_API_KEY not set"}
  /\ Stage1Failed =>
       /\ Failed /\ tags = {"stage 1"}
       /\ reads = <<>> /\ QuestionWrites = {} /\ ~Stage2Invoked /\ results = {}
  /\ unresolved =>
       /\ ~Stage2Invoked /\ results = {}
       /\ Exited => Failed /\ tags = {"technique not found"}
  /\ Stage2Failed =>
       /\ Failed /\ tags = {"stage 2"} /\ results = {}

\* C7 witness: a run ended fatally in stage 2 after questions were answered
C7_Witness == Failed /\ Stage2Failed /\ reads # <<>>

\* C8 (the claim as stated): when GEMINI_API_KEY is absent no guideline file
\* is ever loaded, no prompt input is ever read and no remote call is made.
C8_NothingBeforeCredential ==
  NoCredential =>
    /\ guidelines = ZeroGuidelines
    /\ userPrompt = <<>>
    /\ ~Stage1Invoked /\ ~Stage2Invoked

\* C8 (amended): when GEMINI_API_KEY is absent the run ends fatally before the
\* client is created and before any remote call or interactive read; the
\* credential is tested after the guidelines are loaded and the prompt input is
\* read, so when both of those succeed the run ends with the missing-credential
\* diagnostic, having loaded the guidelines and read the prompt.
C8_NoSessionWithoutCredential ==
  NoCredential =>
    /\ NoRemoteWork
    /\ Exited => Failed
    /\ (Exited /\ ~MissingPrompt /\ ~BadConfig /\ ~BadInput) =>
         /\ FatalTags = {"GEMINI_API_KEY not set"}
         /\ guidelines = LoadGuidelines(guidelinesFile).val
         /\ userPrompt = ReadInput(promptInput, files).val

\* C8 witness: a run ended on the missing credential with guidelines loaded
C8_Witness ==
  /\ Failed /\ NoCredential /\ FatalTags = {"GEMINI_API_KEY not set"}
  /\ guidelines # ZeroGuidelines /\ userPrompt # <<>>

\* the controller state of the specification: 0 Idle, 1 Loaded, 2 Analyzed,
\* 3 Answered, 4 Refined, 5 Done
CtrlState ==
  IF ResultWrites # {} THEN 5
  ELSE IF Stage2Succeeded THEN 4
  ELSE IF Stage1Succeeded /\ pc \notin {"questions", "ask"} THEN 3
  ELSE IF Stage1Succeeded THEN 2
  ELSE IF guidelines # ZeroGuidelines THEN 1
  ELSE 0

\* C9: every step leaves the controller state where it is or moves it to the
\* next state in the order Idle, Loaded, Analyzed, Answered, Refined, Done;
\* stage 1 and stage 2 are each invoked at most once; stage 2 is invoked only
\* from the Answered state, with stage 1 succeeded and every question
\* processed.
C9_LinearPass ==
  [][ /\ CtrlState' \in {CtrlState, CtrlState + 1}
      /\ Len(stage1Calls') <= 1
      /\ Len(stage2Calls') <= 1
      /\ (stage2Calls' # stage2Calls) =>
           /\ CtrlState = 3
           /\ Stage1Succeeded
           /\ qIdx = Len(Questions) /\ Len(reads) = Len(Questions) ]_vars

\* C9 witness: a run reached Done after asking questions
C9_Witness == CtrlState = 5 /\ Succeeded /\ Len(reads) = 2

\* the stage-1 response has the documented shape: an object with a string
\* ChoseTechnique and an array ClarifyingQuestions of objects with string
\* fields question and exampleAnswer
Conforms(j) ==
  /\ j.t = "obj"
  /\ {"ChoseTechnique", "ClarifyingQuestions"} \subseteq DOMAIN j.v
  /\ j.v.ChoseTechnique.t = "str"
  /\ j.v.ClarifyingQuestions.t = "arr"
  /\ \A i \in DOMAIN j.v.ClarifyingQuestions.v :
       LET q == j.v.ClarifyingQuestions.v[i]
       IN  /\ q.t = "obj"
           /\ {"question", "exampleAnswer"} \subseteq DOMAIN q.v
           /\ q.v.question.t = "str"
           /\ q.v.exampleAnswer.t = "str"

\* C10 (the claim as stated): a stage-1 response of the documented shape is
\* parsed into an outcome with its technique name and its questions in order,
\* and a stage-1 parse failure happens only for a response not of that shape.
C10_DocumentedShapeParses ==
  (Stage1Invoked /\ stage1Response.t # "none") =>
    /\ Conforms(stage1Response) =>
         /\ Stage1Succeeded
         /\ analysisResult.ChosenTechniqueName = stage1Response.v.ChoseTechnique.v
         /\ Questions = [i \in DOMAIN stage1Response.v.ClarifyingQuestions.v |->
                           stage1Response.v.ClarifyingQuestions.v[i].v.question.v]
    /\ "stage 1" \in FatalTags => ~Conforms(stage1Response)

----------------------------------------------------------------------------
(* Observations of a direct call *)

LoadCalled == ret.fn = "LoadGuidelines"

IsDocument == guidelinesFile.exists /\ guidelinesFile.json.t = "obj"

\* the member k of the guidelines document, JAbsent when there is none
Member(k) ==
  IF IsDocument /\ k \in DOMAIN guidelinesFile.json.v
    THEN guidelinesFile.json.v[k] ELSE JAbsent

\* the string member k of a technique entry, "" when there is none
EntryString(e, k) == IF k \in DOMAIN e.v THEN e.v[k].v ELSE ""

TechniqueFields == {"name", "summarized", "complete"}

MissingFile == ~guidelinesFile.exists
InvalidJSON == guidelinesFile.exists /\ guidelinesFile.json.t = "invalid"
EmptyIntroduction ==
  /\ IsDocument
  /\ \/ Member("introduction").t = "absent"
     \/ Member("introduction").t = "str" /\ Member("introduction").v = ""
NoTechniques ==
  /\ IsDocument
  /\ \/ Member("techniques").t \in {"absent", "null"}
     \/ Member("techniques").t = "arr" /\ Len(Member("techniques").v) = 0

\* a document with a non-empty introduction and at least one technique object
WellFormedDoc ==
  /\ IsDocument
  /\ Member("introduction").t = "str" /\ Member("introduction").v # ""
  /\ Member("techniques").t = "arr" /\ Len(Member("techniques").v) >= 1
  /\ \A i \in DOMAIN Member("techniques").v : Member("techniques").v[i].t = "obj"

\* some technique object of the document lacks one of the three fields
SomeEntryLacksField ==
  /\ Member("techniques").t = "arr"
  /\ \E i \in DOMAIN Member("techniques").v :
       /\ Member("techniques").v[i].t = "obj"
       /\ ~(TechniqueFields \subseteq DOMAIN Member("techniques").v[i].v)

\* C11: LoadGuidelines fails and returns no guidelines for a missing file,
\* for syntactically invalid JSON, for an empty introduction and for zero
\* techniques.
C11_LoadFails ==
  (LoadCalled /\ (MissingFile \/ InvalidJSON \/ EmptyIntroduction \/ NoTechniques)) =>
    ret.err /\ guidelines = ZeroGuidelines

\* an empty introduction in front of two techniques was refused
C11_Witness ==
  /\ LoadCalled /\ ret.err
  /\ EmptyIntroduction /\ ~SomeEntryLacksField
  /\ Member("techniques").t = "arr" /\ Len(Member("techniques").v) = 2
  /\ \A i \in 1..2 : Member("techniques").v[i].t = "obj"

\* C12: for a well-formed document LoadGuidelines succeeds with as many
\* techniques as the document has entries, in the document's order, and with
\* the document's introduction verbatim.
C12_LoadPreservesDocument ==
  (LoadCalled /\ WellFormedDoc) =>
    /\ ~ret.err
    /\ guidelines.Introduction = Member("introduction").v
    /\ Len(guidelines.Techniques) = Len(Member("techniques").v)
    /\ \A i \in DOMAIN Member("techniques").v :
         /\ guidelines.Techniques[i].Name = EntryString(Member("techniques").v[i], "name")
         /\ guidelines.Techniques[i].Summarized
              = EntryString(Member("techniques").v[i], "summarized")
         /\ guidelines.Techniques[i].Complete
              = EntryString(Member("techniques").v[i], "complete")

\* two techniques of different names were loaded
C12_Witness ==
  /\ LoadCalled /\ WellFormedDoc /\ ~ret.err
  /\ Len(guidelines.Techniques) = 2
  /\ guidelines.Techniques[1].Name = "persona_pattern"
  /\ guidelines.Techniques[2].Name = "clear_instructions"

\* C13 (the claim as stated): a document in which some technique lacks one of
\* the fields name, summarized, complete is rejected.
C13_MissingFieldRejected ==
  (LoadCalled /\ SomeEntryLacksField) => ret.err

LookupCalled == ret.fn = "GetTechniqueByName"

\* C14: GetTechniqueByName finds the first technique, in slice order, whose
\* name equals the query exactly (capitals matter), reports not-found when no
\* name equals the query, and leaves the slice as it was.
C14_LookupFirstExactMatch ==
  LookupCalled =>
    /\ guidelines.Techniques = ret.techniques
    /\ IF \E i \in DOMAIN ret.techniques : ret.techniques[i].Name = ret.name
         THEN /\ ret.found
              /\ \E i \in DOMAIN ret.techniques :
                   /\ ret.techniques[i].Name = ret.name
                   /\ \A j \in 1..(i - 1) : ret.techniques[j].Name # ret.name
                   /\ chosenTechnique = ret.techniques[i]
       ELSE ~ret.found

\* of two techniques named persona_pattern the first was returned
C14_Witness ==
  /\ LookupCalled /\ ret.found /\ ret.name = "persona_pattern"
  /\ Len(ret.techniques) = 2
  /\ ret.techniques[1].Name = "persona_pattern"
  /\ ret.techniques[2].Name = "persona_pattern"
  /\ ret.techniques[1] # ret.techniques[2]
  /\ chosenTechnique = ret.techniques[1]

\* a query differing only in capitals from a loaded name was not found
C14_CaseWitness ==
  /\ LookupCalled /\ ~ret.found /\ ret.name = "Persona_Pattern"
  /\ \E i \in DOMAIN ret.techniques : ret.techniques[i].Name = "persona_pattern"

ReadCalled == ret.fn = "ReadInput"

\* the input ends in .txt or .md, in small or capital letters
HasDocExtension(raw) ==
  /\ Len(raw) >= 2
  /\ raw[Len(raw) - 1] = "."
  /\ raw[Len(raw)] \in {"txt", "md", "TXT", "MD"}

\* C15: an input ending in .txt or .md is read as a file, giving the whole
\* content of the file or an error when it cannot be read; any other input is
\* returned unchanged, except the empty one, which is an error.
C15_ReadInput ==
  ReadCalled =>
    IF HasDocExtension(promptInput)
      THEN IF promptInput \in DOMAIN files /\ files[promptInput].exists
             THEN ~ret.err /\ userPrompt = files[promptInput].data
           ELSE ret.err
    ELSE IF promptInput = <<>> THEN ret.err
    ELSE ~ret.err /\ userPrompt = promptInput

\* notes.md was read whole, its final newline included
C15_Witness ==
  /\ ReadCalled /\ ~ret.err
  /\ promptInput = <<"notes", ".", "md">>
  /\ userPrompt = <<"from file", "\n">>

OutputCalled == ret.fn = "HandleOutput"

\* what the call appended to standard output
NewOutput == SubSeq(stdout, Len(ret.stdoutBefore) + 1, Len(stdout))

\* C16: with an empty destination HandleOutput writes the text and one
\* newline to standard output and touches no file; with a destination it
\* makes that file hold the text exactly, with no newline added, and writes
\* nothing of the text to standard output; a failed write is returned as an
\* error.
C16_HandleOutput ==
  OutputCalled =>
    /\ SubSeq(stdout, 1, Len(ret.stdoutBefore)) = ret.stdoutBefore
    /\ ret.err <=> ret.io # "ok"
    /\ outputPath = <<>> =>
         /\ files = ret.filesBefore
         /\ ~ret.err => NewOutput = <<[tag |-> "output",
                                       text |-> enhancedPrompt \o <<"\n">>]>>
    /\ outputPath # <<>> =>
         /\ \A i \in DOMAIN NewOutput : NewOutput[i].tag = "writing file"
         /\ \A p \in (DOMAIN files \cup DOMAIN ret.filesBefore) \ {outputPath} :
              /\ p \in DOMAIN files /\ p \in DOMAIN ret.filesBefore
              /\ files[p] = ret.filesBefore[p]
         /\ ~ret.err =>
              /\ outputPath \in DOMAIN files
              /\ files[outputPath] = [exists |-> TRUE, data |-> enhancedPrompt]

\* out.txt held other content and now holds the text, which is not empty
C16_Witness ==
  /\ OutputCalled /\ ~ret.err
  /\ outputPath = <<"out", ".", "txt">>
  /\ outputPath \in DOMAIN ret.filesBefore
  /\ ret.filesBefore[outputPath].data = <<"old", "\n">>
  /\ files[outputPath].data = <<"Final text">>
  /\ NewOutput = <<>>

\* the answers part of a stage-2 request text: what lies between the
\* (userprompt) line and the (answers) mark
AnswersPart(text) ==
  LET a == CHOOSE i \in DOMAIN text : text[i] = "  (userprompt)\n"
      b == CHOOSE i \in DOMAIN text : text[i] = " (answers)\n\n"
  IN  SubSeq(text, a + 1, b - 1)

\* the entries of a map written key by key in ascending order
RECURSIVE Ascending(_, _)
Ascending(m, i) ==
  IF i > Len(KeysAscending) THEN <<>>
  ELSE IF KeysAscending[i] \in DOMAIN m
    THEN <<<<KeysAscending[i], ":">> \o m[KeysAscending[i]]>> \o Ascending(m, i + 1)
  ELSE Ascending(m, i + 1)

RECURSIVE JoinWithSpace(_)
JoinWithSpace(parts) ==
  IF parts = <<>> THEN <<>>
  ELSE IF Len(parts) = 1 THEN parts[1]
  ELSE parts[1] \o <<" ">> \o JoinWithSpace(Tail(parts))

\* standard output of a successful run without -verbose, from the responses
QuietOutput ==
  [i \in DOMAIN Questions |-> [tag |-> "question", text |-> <<"- ", Questions[i], ": ">>]]
    \o << [tag |-> "result", text |-> stage2Response.v \o <<"\n">>],
           [tag |-> "close",
            text |-> <<"Gemini client resources released (placeholder).", "\n">>] >>

\* C17: what a run sends and prints is a function of its configuration, its
\* input, the answers and the remote responses: the stage-2 request text is
\* fixed by the content of the answer map, whatever the order in which the
\* answers were stored or the map is visited, and standard output of a
\* successful run is fixed by the two remote responses.
C17_RequestFixedByContent ==
  /\ \A i \in DOMAIN stage2Calls :
       /\ AnswersPart(stage2Calls[i].prompt)
            = <<"map[">> \o JoinWithSpace(Ascending(stage2Calls[i].answers, 1)) \o <<"]">>
       /\ stage2Calls[i].answers = userAnswers
  /\ (Succeeded /\ ~verbose) => stdout = QuietOutput

\* q2 was answered before q1 and both answers were sent
C17_Witness ==
  /\ Succeeded /\ ~verbose
  /\ Questions = <<"q2", "q1">>
  /\ DOMAIN userAnswers = {"q1", "q2"}
  /\ userAnswers["q1"] # userAnswers["q2"]
  /\ Len(stage2Calls) = 1

\* C18 (the claim as stated): once the client has been created, Close has run
\* by the time the process has exited, on the fatal paths as on the normal
\* one.
C18_ClosedOnEveryExit ==
  (Exited /\ clientOpen) => closeCalls = 1

\* the reads so far that succeeded for a question of text t
SuccessfulReadsOf(t) == {k \in DOMAIN reads : ~reads[k].err /\ Questions[k] = t}

\* C19: whatever reads have happened, every key of the answer map is a
\* question text of stage 1 and its value is the trimmed line of the latest
\* successful read for a question of that text: a later successful read for
\* the same text replaces the value, a failed read leaves the entry as it was,
\* and a text with no successful read has no entry.
C19_AnswerMapKeys ==
  /\ DOMAIN userAnswers \subseteq {Questions[i] : i \in DOMAIN Questions}
  /\ \A t \in DOMAIN userAnswers :
       /\ SuccessfulReadsOf(t) # {}
       /\ \E k \in SuccessfulReadsOf(t) :
            /\ \A j \in SuccessfulReadsOf(t) : j <= k
            /\ IsTrimOf(userAnswers[t], Line(reads[k]))
  /\ \A i \in DOMAIN reads : ~reads[i].err => Questions[i] \in DOMAIN userAnswers

\* two questions of one text: the first read succeeded, the second failed,
\* and the entry still holds the first answer
C19_Witness ==
  /\ Len(reads) = 2 /\ Len(Questions) = 2
  /\ Questions[1] = Questions[2]
  /\ ~reads[1].err /\ reads[2].err
  /\ Line(reads[1]) = <<" ", "a", " ", "b", "\t">>
  /\ DOMAIN userAnswers = {Questions[1]}
  /\ userAnswers[Questions[1]] = <<"a", " ", "b">>

\* two questions of one text, both read: the entry holds the second answer
C19_OverwriteWitness ==
  /\ Len(reads) = 2 /\ Len(Questions) = 2
  /\ Questions[1] = Questions[2]
  /\ ~reads[1].err /\ ~reads[2].err
  /\ Line(reads[1]) = <<"a">> /\ Line(reads[2]) = <<" ", "a", " ", "b", "\t">>
  /\ userAnswers[Questions[1]] = <<"a", " ", "b">>

====
